---------------------------- MODULE Spec2Model ----------------------------
(***************************************************************************)
(* Model of src/agent/agent.c, the native JVMTI agent of live_migrator:    *)
(* epoch-based object tagging, the growable tag collector, the three heap  *)
(* operations (nativeSnapshotBytes, nativeWalkHeap, nativeWalkHeapFiltered)*)
(* and nativeAdvanceEpoch.  Each native method is one atomic step; the     *)
(* variable last records what the step did until its caller has taken the  *)
(* result (Return).  The failures of the JVMTI, JNI and libc calls a       *)
(* method makes are inputs of the step, at most one per call.              *)
(*                                                                         *)
(* A jlong is 64 bits wide.  TLC integers are 32 bits wide, so a 64-bit    *)
(* word is held as four 16-bit limbs, least significant limb first:        *)
(*   <<l1, l2, l3, l4>>  stands for  l1 + l2*2^16 + l3*2^32 + l4*2^48.     *)
(*                                                                         *)
(* The heap is a sequence of class names: object o (1..Len(heap)) is an    *)
(* instance of class heap[o].  Objects are neither created nor collected   *)
(* while the agent runs (the runtime pauses mutators during a walk).       *)
(* IterateThroughHeap visits the objects in index order; JVMTI reports its *)
(* errors before visiting any object.                                      *)
(***************************************************************************)
EXTENDS Integers, Sequences, FiniteSets, TLC

\* ------------------------------------------------------------------ bounds
\* The largest number of objects of a small heap.
MaxObjs == 2
\* The epoch value above which no further epoch increment is explored.
MaxEpoch == 3
\* The longest class-name list handed to nativeWalkHeapFiltered.
MaxNames == 2
\* Per-entry name failures are injected at entry indices 1..MaxEntryFault.
MaxEntryFault == 2
\* A failure is injected into one of the first MaxReallocs reallocs of a
\* tagging pass.
MaxReallocs == 2
MaxThreads == 2

\* ------------------------------------------------------- program constants
\* tag_add: first capacity of the collector (agent.c:71).
TagBaseCap == 128
\* nativeWalkHeapFiltered: slack added to the first Reference Buffer
\* capacity (agent.c:616).
CollectedSlack == 64
\* limits.h INT_MAX, the bound on the snapshot size (agent.c:323).
INT_MAX == 2147483647
\* Initial value of g_epoch (agent.c:37) and of g_local_counter
\* (agent.c:38, and the resets at :179, :467, :578).
InitialCounter == 1

\* ------------------------------------------------------------ 64-bit words
Limb == 256 * 256
Zero64 == <<0, 0, 0, 0>>

\* The 64-bit word of a small natural number (below 2^31).
ToWord(n) == <<n % Limb, (n \div Limb) % Limb, 0, 0>>

\* The value of a word whose two high limbs are zero and that fits an int.
WordVal(w) == w[1] + w[2] * Limb

\* x + 1 on 64 bits, wrapping (what __sync_fetch_and_add(&x, 1) stores).
Inc64(w) ==
    IF w[1] + 1 < Limb THEN <<w[1] + 1, w[2], w[3], w[4]>>
    ELSE IF w[2] + 1 < Limb THEN <<0, w[2] + 1, w[3], w[4]>>
    ELSE IF w[3] + 1 < Limb THEN <<0, 0, w[3] + 1, w[4]>>
    ELSE IF w[4] + 1 < Limb THEN <<0, 0, 0, w[4] + 1>>
    ELSE Zero64

\* Bitwise OR of two naturals.
RECURSIVE BitOr(_, _)
BitOr(a, b) ==
    IF a = 0 THEN b
    ELSE IF b = 0 THEN a
    ELSE (IF a % 2 = 1 \/ b % 2 = 1 THEN 1 ELSE 0)
         + 2 * BitOr(a \div 2, b \div 2)

\* Bitwise AND of two naturals.
RECURSIVE BitAnd(_, _)
BitAnd(a, b) ==
    IF a = 0 \/ b = 0 THEN 0
    ELSE (IF a % 2 = 1 /\ b % 2 = 1 THEN 1 ELSE 0)
         + 2 * BitAnd(a \div 2, b \div 2)

And64(a, b) == <<BitAnd(a[1], b[1]), BitAnd(a[2], b[2]),
                 BitAnd(a[3], b[3]), BitAnd(a[4], b[4])>>

Or64(a, b) == <<BitOr(a[1], b[1]), BitOr(a[2], b[2]),
                BitOr(a[3], b[3]), BitOr(a[4], b[4])>>

\* (uint64_t)(uint32_t)w  and  w & 0xFFFFFFFF : keep the low 32 bits.
Low32(w) == <<w[1], w[2], 0, 0>>

\* w << 32 on 64 bits.
Shl32(w) == <<0, 0, w[1], w[2]>>

\* Byte k (0 = least significant) of a word: (w >> 8k) & 0xFF.
ByteOf(w, k) ==
    LET l == w[(k \div 2) + 1]
    IN  IF k % 2 = 0 THEN l % 256 ELSE (l \div 256) % 256

\* ------------------------------------------------------------ tag scheme
\* A composition that leaves the local counter out.
MakeTagEpochOnly(epoch, local) == Shl32(Low32(epoch))

\* A composition that joins the two halves with & instead of |.
MakeTagAnded(epoch, local) == And64(Shl32(Low32(epoch)), Low32(local))

\* heap_tagging_cb, agent.c:129-130:
\*   (((uint64_t)(uint32_t)g_epoch) << 32) | ((uint64_t)local & 0xFFFFFFFF)
MakeTag(epoch, local) == Or64(Shl32(Low32(epoch)), Low32(local))

\* A fetch-and-add that loses its increment.
FetchAndAddLost(w) == w

\* __sync_fetch_and_add(&x, 1): the value stored back into x.
FetchAndAdd(w) == Inc64(w)

\* *tag_ptr = tag  (agent.c:132) and  *tag_ptr = 0  (agent.c:100).
StoreTagDropped(tagsFn, o, tag) == tagsFn
StoreTag(tagsFn, o, tag) == [tagsFn EXCEPT ![o] = tag]

\* ------------------------------------------------------- tag collector
\* memset(&col, 0, sizeof(col))  (agent.c:191, :470, :581).
EmptyCollector ==
    [tags |-> <<>>, count |-> 0, capacity |-> 0, alloc_failed |-> FALSE]

\* A tag_add that tries the allocation again after a failure.
tag_addRetry(c, tag, reallocOk) ==
    IF ~reallocOk THEN [col |-> [c EXCEPT !.alloc_failed = TRUE], rc |-> -1]
    ELSE [col |-> [tags |-> Append(c.tags, tag), count |-> c.count + 1,
                   capacity |-> IF c.count >= c.capacity
                                THEN (IF c.capacity = 0 THEN TagBaseCap
                                      ELSE c.capacity * 2)
                                ELSE c.capacity,
                   alloc_failed |-> FALSE],
          rc |-> 0]

\* tag_add (agent.c:68-82).  reallocOk tells whether the realloc of line 72
\* succeeds, should the call reach it.  Returns the collector and the
\* return code.
tag_add(c, tag, reallocOk) ==
    IF c.alloc_failed THEN [col |-> c, rc |-> -1]
    ELSE IF c.count >= c.capacity
    THEN LET newCap == IF c.capacity = 0 THEN TagBaseCap ELSE c.capacity * 2
         IN  IF ~reallocOk
             THEN [col |-> [c EXCEPT !.alloc_failed = TRUE], rc |-> -1]
             ELSE [col |-> [tags |-> Append(c.tags, tag),
                            count |-> c.count + 1,
                            capacity |-> newCap,
                            alloc_failed |-> FALSE],
                   rc |-> 0]
    ELSE [col |-> [c EXCEPT !.tags = Append(c.tags, tag),
                            !.count = c.count + 1],
          rc |-> 0]

\* ------------------------------------------------------- heap callbacks
\* A clear callback that leaves the tag slot alone.
clear_tag_cbKept(tagsFn, o) == tagsFn

\* clear_tag_cb (agent.c:87-103) applied to object o.
clear_tag_cb(tagsFn, o) ==
    IF tagsFn[o] # Zero64 THEN StoreTag(tagsFn, o, Zero64) ELSE tagsFn

\* A tagging callback without the test of agent.c:124.
heap_tagging_cbRetag(st, o, epoch, growFail) ==
    LET r == tag_add(st.col, MakeTag(epoch, st.local),
                     (st.reallocs + 1) \notin growFail)
    IN  [tags     |-> StoreTag(st.tags, o, MakeTag(epoch, st.local)),
         local    |-> FetchAndAdd(st.local),
         col      |-> r.col,
         assigned |-> Append(st.assigned, <<o, MakeTag(epoch, st.local)>>),
         reallocs |-> st.reallocs + 1,
         abort    |-> r.rc # 0]

\* The state threaded through one tagging iteration:
\*   tags     the tag slots of the heap
\*   local    g_local_counter
\*   col      the tag_collector_t passed as user_data
\*   assigned <<object, tag>> for every slot the callback wrote, in order
\*   reallocs number of realloc calls made by tag_add so far
\*   abort    the callback returned JVMTI_ITERATION_ABORT
\* heap_tagging_cb (agent.c:110-139) applied to object o; growFail is the
\* set of ordinals of the realloc calls that fail.
heap_tagging_cb(st, o, epoch, growFail) ==
    IF st.tags[o] # Zero64 THEN st
    ELSE LET local == st.local
             tag   == MakeTag(epoch, local)
             grows == st.col.count >= st.col.capacity /\ ~st.col.alloc_failed
             r     == tag_add(st.col, tag, (st.reallocs + 1) \notin growFail)
         IN  [tags     |-> StoreTag(st.tags, o, tag),
              local    |-> FetchAndAdd(local),
              col      |-> r.col,
              assigned |-> Append(st.assigned, <<o, tag>>),
              reallocs |-> st.reallocs + (IF grows THEN 1 ELSE 0),
              abort    |-> r.rc # 0]

\* IterateThroughHeap(JVMTI_HEAP_OBJECT_EITHER, klass, heap_tagging_cb):
\* the callback runs on the objects lo..hi in index order, restricted to
\* the instances of klass unless klass is "" (NULL), and no more once it
\* has returned JVMTI_ITERATION_ABORT.  The range is walked by halves, the
\* left half first, to keep the evaluation shallow.
RECURSIVE IterateTagging(_, _, _, _, _, _, _)
IterateTagging(hp, klass, lo, hi, st, epoch, growFail) ==
    IF lo > hi \/ st.abort THEN st
    ELSE IF lo = hi
    THEN IF klass # "" /\ hp[lo] # klass THEN st
         ELSE heap_tagging_cb(st, lo, epoch, growFail)
    ELSE LET mid  == (lo + hi) \div 2
             left == IterateTagging(hp, klass, lo, mid, st, epoch, growFail)
         IN  IterateTagging(hp, klass, mid + 1, hi, left, epoch, growFail)

\* The sequence <<elem(lo), ..., elem(hi)>>, built by halves.
RECURSIVE Tabulate(_, _, _)
Tabulate(elem(_), lo, hi) ==
    IF lo > hi THEN <<>>
    ELSE IF lo = hi THEN <<elem(lo)>>
    ELSE LET mid == (lo + hi) \div 2
         IN  Tabulate(elem, lo, mid) \o Tabulate(elem, mid + 1, hi)

\* A clear pass that leaves every tag in place.
ClearAllTagsSkipped(hp, tagsFn, err) == tagsFn

\* clear_all_tags (agent.c:144-151): IterateThroughHeap with clear_tag_cb
\* over every object; when the call reports an error (err) nothing is
\* visited and the error is only logged.
ClearAllTags(hp, tagsFn, err) ==
    IF err THEN tagsFn
    ELSE LET Slot(o) == clear_tag_cb(tagsFn, o)[o]
         IN  Tabulate(Slot, 1, Len(hp))

\* The set of elements of a sequence.
Range(s) == {s[i] : i \in 1..Len(s)}

\* The objects 1..n in order.
Objects(n) == [i \in 1..n |-> i]

\* GetObjectsWithTags(count, tags, &found, &objects, &tagsOut): the objects
\* whose tag is one of tagList, in heap order (agent.c:207, :431, :491,
\* :606).  tagsOut[i] is the tag of objects[i].
GetObjectsWithTags(hp, tagsFn, tagList) ==
    LET want == Range(tagList)
        Hit(o) == tagsFn[o] \in want
    IN  SelectSeq(Objects(Len(hp)), Hit)


\* ------------------------------------------------------------------ state
VARIABLES
    heap,             \* the live objects: heap[o] is the class of object o
    tags,             \* tags[o]: the JVMTI tag slot of object o (64 bits)
    g_epoch,          \* agent.c:37
    g_local_counter,  \* agent.c:38
    crashed,          \* the process died of a write past a malloc'ed block
    last,             \* what the last native call did and returned
    running           \* running[t]: the native call thread t is inside

vars == <<heap, tags, g_epoch, g_local_counter, crashed, last, running>>

\* The classes of the model and the bytes of their names as
\* GetStringUTFChars hands them out ("A", "BC").
Classes == {"A", "BC"}
NameBytes(c) == IF c = "A" THEN <<65>> ELSE <<66, 67>>

\* A class name FindClass cannot resolve, and a null jstring.
NoSuchClass == "?"
NullName == "null"

\* The faults the environment can inject into one native call: a fault is
\* <<kind, ci, n>>, the failure of the n-th call of that kind made for the
\* ci-th class name (ci = 1 outside nativeWalkHeapFiltered).  A call runs
\* with at most one fault.
Fault(kind, ci, n) == <<kind, ci, n>>
Has(F, kind, ci, n) == Fault(kind, ci, n) \in F
\* The ordinals n of the failing calls of one kind for class ci.
Ordinals(F, kind, ci) == {f[3] : f \in {g \in F : g[1] = kind /\ g[2] = ci}}

Absent == [present |-> FALSE, val |-> <<>>]
Present(v) == [present |-> TRUE, val |-> v]

\* The record of one tagging pass of a native call.
\*   klass       the class filter ("" for none)
\*   epoch       g_epoch when the pass started
\*   iterErr     IterateThroughHeap reported an error
\*   col         the collector when the iteration ended
\*   assigned    <<object, tag>> for every tag slot the callback wrote
\*   resolveErr  GetObjectsWithTags reported an error
\*   objects     the references GetObjectsWithTags returned
\*   tagsOut     their tags
\*   colFrees    how often free(col.tags) ran on allocated storage
PassRecord(klass, epoch, iterErr, st, resolveErr, objs, tagsOut, frees) ==
    [klass |-> klass, epoch |-> epoch, iterErr |-> iterErr, col |-> st.col,
     assigned |-> st.assigned, resolveErr |-> resolveErr, objects |-> objs,
     tagsOut |-> tagsOut, colFrees |-> frees]

\* if (col.tags) free(col.tags): 1 when there is storage to free.
FreeColLeaked(st) == 0
FreeCol(st) == IF st.col.capacity > 0 THEN 1 ELSE 0

\* One tagging pass: the collector is zeroed and IterateThroughHeap runs
\* heap_tagging_cb over the instances of klass (agent.c:190-200, :469-479,
\* :580-593).
TagPass(hp, klass, tagsFn, epoch, local, F, ci) ==
    LET st0 == [tags |-> tagsFn, local |-> local, col |-> EmptyCollector,
                assigned |-> <<>>, reallocs |-> 0, abort |-> FALSE]
    IN  IF Has(F, "iter", ci, 1) THEN st0
        ELSE IterateTagging(hp, klass, 1, Len(hp), st0, epoch,
                            Ordinals(F, "grow", ci))

\* What a native call leaves behind.
\*   op          the native method
\*   names       its class-name arguments
\*   faults      the faults injected into it
\*   result      what it returned
\*   passes      its tagging passes, in order
\*   staleBefore number of objects that carried a tag when it was called
\*   refs        nativeWalkHeapFiltered: the references it obtained
\*   growFailed  nativeWalkHeapFiltered: the Reference Buffer's realloc failed
\*   entries     nativeSnapshotBytes: <<tag, name bytes>> of the entries the
\*               encoder was given, in order
\*   degraded    nativeSnapshotBytes: the indices of the entries whose name
\*               could not be obtained
\*   written     nativeSnapshotBytes: the bytes the encoder wrote, in order
\*   bufSize     nativeSnapshotBytes: the size of the malloc'ed buffer
\*   tag         nativeResolve: its argument
NoCall ==
    [op |-> "none", names |-> <<>>, faults |-> {}, result |-> Absent,
     passes |-> <<>>, staleBefore |-> 0, refs |-> <<>>, growFailed |-> FALSE,
     entries |-> <<>>, degraded |-> {}, written |-> <<>>, bufSize |-> 0,
     tag |-> Zero64]

Stale(hp, tagsFn) == Cardinality({o \in 1..Len(hp) : tagsFn[o] # Zero64})

TagsOf(tagsFn, objs) ==
    LET TagAt(i) == tagsFn[objs[i]]
    IN  Tabulate(TagAt, 1, Len(objs))

\* GetObjectsWithTags on the collected tags, reached only when the
\* collector holds at least one tag and the call does not fail (err)
\* (agent.c:202-213, :481-498, :596-611).
ResolveTags(hp, st, err) ==
    IF st.col.count > 0 /\ ~err
    THEN GetObjectsWithTags(hp, st.tags, st.col.tags)
    ELSE <<>>

\* ---------------------------------------------------------- nativeWalkHeap
\* agent.c:481-531: the count check, GetObjectsWithTags (objs) and the
\* construction of the returned Object[]; st is the state the tagging
\* iteration left, stale the number of tagged objects at the call.
WalkHeapResolved(F, epoch, stale, st, objs) ==
    LET count  == st.col.count
        resErr == count > 0 /\ Has(F, "resolve", 1, 1)
        pass   == PassRecord("", epoch, Has(F, "iter", 1, 1), st, resErr,
                             objs, TagsOf(st.tags, objs), FreeCol(st))
        res    == IF count <= 0 THEN Absent
                  ELSE IF resErr THEN Absent
                  ELSE IF Has(F, "findObject", 1, 1) THEN Absent
                  ELSE IF Has(F, "newArray", 1, 1) THEN Absent
                  ELSE Present(objs)
    IN  [tags |-> st.tags, local |-> st.local,
         call |-> [NoCall EXCEPT !.op = "walkHeap", !.faults = F,
                                 !.result = res, !.passes = <<pass>>,
                                 !.staleBefore = stale]]

\* agent.c:469-498: the state after the tagging iteration, handed to
\* GetObjectsWithTags.
WalkHeapTagged(hp, F, epoch, stale, st) ==
    WalkHeapResolved(F, epoch, stale, st,
                     ResolveTags(hp, st, Has(F, "resolve", 1, 1)))

\* Java_migrator_heap_NativeHeapWalker_nativeWalkHeap (agent.c:459-531).
\* Returns the new tag slots, the new g_local_counter and the call record.
WalkHeap(hp, tagsFn, epoch, F) ==
    WalkHeapTagged(hp, F, epoch, Stale(hp, tagsFn),
                   TagPass(hp, "",
                           ClearAllTags(hp, tagsFn, Has(F, "clear", 1, 1)),
                           epoch, ToWord(InitialCounter), F, 1))

\* The reallocs of tag_add a tagging pass over hp can reach: the n-th one
\* happens at append 1, TagBaseCap + 1, 2 * TagBaseCap + 1, ... .
ReallocOrdinals(hp) ==
    {n \in 1..MaxReallocs :
       n = 1 \/ (n = 2 /\ Len(hp) > TagBaseCap)
             \/ (n > 2 /\ Len(hp) > 2 * TagBaseCap)}

WalkHeapFaults(hp) ==
    {Fault("clear", 1, 1), Fault("iter", 1, 1), Fault("resolve", 1, 1),
     Fault("findObject", 1, 1), Fault("newArray", 1, 1)}
    \cup {Fault("grow", 1, n) : n \in ReallocOrdinals(hp)}

\* At most one fault per call.
Plans(faults) == {{}} \cup {{f} : f \in faults}

Idle == last.op = "none" /\ ~crashed

NativeWalkHeap ==
    /\ Idle
    /\ \E F \in Plans(WalkHeapFaults(heap)) :
         \E r \in {WalkHeap(heap, tags, g_epoch, F)} :
             /\ tags' = r.tags
             /\ g_local_counter' = r.local
             /\ last' = r.call
    /\ UNCHANGED <<heap, g_epoch, crashed, running>>

\* ----------------------------------------------------- nativeSnapshotBytes
\* The concatenation of part(lo), ..., part(hi), built by halves.
RECURSIVE Concat(_, _, _)
Concat(part(_), lo, hi) ==
    IF lo > hi THEN <<>>
    ELSE IF lo = hi THEN part(lo)
    ELSE LET mid == (lo + hi) \div 2
         IN  Concat(part, lo, mid) \o Concat(part, mid + 1, hi)

\* The sum of part(lo), ..., part(hi), built by halves.
RECURSIVE Sum(_, _, _)
Sum(part(_), lo, hi) ==
    IF lo > hi THEN 0
    ELSE IF lo = hi THEN part(lo)
    ELSE LET mid == (lo + hi) \div 2
         IN  Sum(part, lo, mid) + Sum(part, mid + 1, hi)

\* A 4-byte field written least significant byte first.
PutInt32Swapped(n) ==
    <<n % 256, (n \div 256) % 256, (n \div 65536) % 256,
      (n \div 16777216) % 256>>

\* agent.c:351-354 and :367-370: p[0] = (n >> 24) & 0xFF, ...,
\* p[3] = n & 0xFF for a non-negative jint n.
PutInt32(n) ==
    <<(n \div 16777216) % 256, (n \div 65536) % 256, (n \div 256) % 256,
      n % 256>>

\* agent.c:359-364: for (b = 7; b >= 0; b--) { p[b] = ut & 0xFF; ut >>= 8; }
\* so p[b] holds byte 7 - b of the tag.
PutInt64(w) ==
    <<ByteOf(w, 7), ByteOf(w, 6), ByteOf(w, 5), ByteOf(w, 4),
      ByteOf(w, 3), ByteOf(w, 2), ByteOf(w, 1), ByteOf(w, 0)>>

\* The name-resolution loop for entry i (agent.c:252-321): "degraded" when
\* the reference is NULL or GetObjectClass, getName or GetStringUTFChars
\* fails, "abort" when the malloc of the copy fails, "ok" otherwise.
NameOutcome(F, i) ==
    IF \/ Has(F, "objNull", 1, i) \/ Has(F, "getClass", 1, i)
       \/ Has(F, "getName", 1, i) \/ Has(F, "nameUtf", 1, i)
    THEN "degraded"
    ELSE IF Has(F, "copy", 1, i) THEN "abort"
    ELSE "ok"

\* The bytes the encoder writes for one entry (agent.c:357-377).
PutEntry(tag, len, name) ==
    PutInt64(tag) \o PutInt32(len) \o (IF len > 0 /\ name # <<>> THEN name ELSE <<>>)

\* The encoder (agent.c:349-377): the bytes written through p, in order.
Encode(found, tagsOut, lens, names) ==
    LET Entry(i) == PutEntry(tagsOut[i], lens[i], names[i])
    IN  PutInt32(found) \o Concat(Entry, 1, found)

\* agent.c:323-411: the size check, the encoder and the construction of
\* the returned byte[].  total is the size computed by the name loop and
\* written the bytes the encoder writes through p.  overflow tells that
\* the encoder wrote past the end of buf; call is then what the call
\* leaves behind if those bytes land outside the block and it goes on.
SnapshotEncoded(F, st, late, found, tagsOut, names, total, written) ==
    LET Outcome(i) == NameOutcome(F, i)
        EntryOf(i) == <<tagsOut[i], names[i]>>
        encoded == [late EXCEPT
                      !.entries = Tabulate(EntryOf, 1, found),
                      !.degraded = {i \in 1..found : Outcome(i) = "degraded"},
                      !.written = written, !.bufSize = total]
        done(c, over) == [tags |-> st.tags, local |-> st.local,
                          overflow |-> over, call |-> c]
    IN  IF \/ Has(F, "findClassClass", 1, 1) \/ Has(F, "getMethod", 1, 1)
           \/ (found > 0 /\ Has(F, "calloc", 1, 1))
           \/ \E i \in 1..found : Outcome(i) = "abort"
           \/ total > INT_MAX
           \/ Has(F, "outbuf", 1, 1)
        THEN done(late, FALSE)
        ELSE IF Has(F, "newByteArray", 1, 1)
        THEN done(encoded, Len(written) > total)
        ELSE done([encoded EXCEPT
                     !.result = Present(SubSeq(written, 1, total))],
                  Len(written) > total)

\* agent.c:252-321 and :349-377: lens[i] and the running total of the name
\* loop (only an entry whose name was obtained adds 8 + 4 + len), and the
\* bytes the encoder writes.
SnapshotNamed(F, st, late, found, tagsOut, names, lens) ==
    LET Size(i) == IF NameOutcome(F, i) = "ok" THEN 8 + 4 + lens[i] ELSE 0
    IN  SnapshotEncoded(F, st, late, found, tagsOut, names,
                        4 + Sum(Size, 1, found),
                        Encode(found, tagsOut, lens, names))

\* agent.c:252-321: names[i] is the copy of the class name of objs[i], or
\* NULL (<<>>) when the entry degraded.
SnapshotNames(hp, F, st, late, objs, names) ==
    LET NameLen(i) == Len(names[i])
    IN  SnapshotNamed(F, st, late, Len(objs), TagsOf(st.tags, objs),
                      names, Tabulate(NameLen, 1, Len(objs)))

\* agent.c:202-321: the references and tags GetObjectsWithTags returned.
SnapshotResolved(hp, className, epoch, F, early, st, objs) ==
    LET resErr == st.col.count > 0 /\ Has(F, "resolve", 1, 1)
        pass   == PassRecord(className, epoch, Has(F, "iter", 1, 1), st,
                             resErr, objs, TagsOf(st.tags, objs), FreeCol(st))
        Name(i) == IF NameOutcome(F, i) = "ok" THEN NameBytes(hp[objs[i]])
                   ELSE <<>>
    IN  SnapshotNames(hp, F, st, [early EXCEPT !.passes = <<pass>>],
                      objs, Tabulate(Name, 1, Len(objs)))

\* agent.c:190-213: the state after the tagging iteration.
SnapshotTagged(hp, className, epoch, F, early, st) ==
    SnapshotResolved(hp, className, epoch, F, early, st,
                     ResolveTags(hp, st, Has(F, "resolve", 1, 1)))

\* agent.c:181-200: class resolution and the tagging iteration, on the
\* tag slots the clear pass left.
SnapshotCleared(hp, className, epoch, F, early, cleared) ==
    IF className \notin Classes \/ Has(F, "utf", 1, 1)
    THEN [tags |-> cleared, local |-> ToWord(InitialCounter),
          overflow |-> FALSE, call |-> early]
    ELSE SnapshotTagged(hp, className, epoch, F, early,
                        TagPass(hp, className, cleared, epoch,
                                ToWord(InitialCounter), F, 1))

\* A snapshot taken without the clear pass.
SnapshotBytesNoClear(hp, tagsFn, epoch, className, F) ==
    SnapshotCleared(hp, className, epoch, F,
                    [NoCall EXCEPT !.op = "snapshotBytes",
                                   !.names = <<className>>, !.faults = F,
                                   !.staleBefore = Stale(hp, tagsFn)],
                    tagsFn)

\* Java_migrator_heap_NativeHeapWalker_nativeSnapshotBytes
\* (agent.c:167-411) for a non-null jClassName.  Returns the new tag
\* slots, the new g_local_counter, whether the encoder wrote past the end
\* of buf, and the call record.
SnapshotBytes(hp, tagsFn, epoch, className, F) ==
    SnapshotCleared(hp, className, epoch, F,
                    [NoCall EXCEPT !.op = "snapshotBytes",
                                   !.names = <<className>>, !.faults = F,
                                   !.staleBefore = Stale(hp, tagsFn)],
                    ClearAllTags(hp, tagsFn, Has(F, "clear", 1, 1)))

SnapshotFaults(hp) ==
    {Fault(k, 1, 1) : k \in {"clear", "utf", "iter", "resolve",
                             "findClassClass", "getMethod", "calloc",
                             "outbuf", "newByteArray"}}
    \cup {Fault("grow", 1, n) : n \in ReallocOrdinals(hp)}
    \cup {Fault(k, 1, i) : k \in {"objNull", "getClass", "getName",
                                  "nameUtf", "copy"},
                           i \in 1..MaxEntryFault}

NativeSnapshotBytes ==
    /\ Idle
    /\ \E className \in Classes \cup {NoSuchClass, NullName} :
         IF className = NullName
         THEN /\ last' = [NoCall EXCEPT !.op = "snapshotBytes",
                                        !.names = <<className>>]
              /\ UNCHANGED <<tags, g_local_counter, crashed, running>>
         ELSE \E F \in Plans(SnapshotFaults(heap)) :
                \E r \in {SnapshotBytes(heap, tags, g_epoch, className, F)} :
                  \* A write past the end of buf is undefined: the process
                  \* dies of it, or the call carries on.
                  \E dead \in IF r.overflow THEN BOOLEAN ELSE {FALSE} :
                    /\ tags' = r.tags
                    /\ g_local_counter' = r.local
                    /\ crashed' = dead
                    /\ last' = IF dead
                               THEN [r.call EXCEPT !.result = Absent]
                               ELSE r.call
    /\ UNCHANGED <<heap, g_epoch, running>>

\* -------------------------------------------------- nativeWalkHeapFiltered
\* A reference obtained from GetObjectsWithTags:
\*   obj      the object it refers to
\*   ci       the index of the class name it was obtained for
\*   deleted  how often DeleteLocalRef ran on it
\*   handed   it was stored into the array returned to the caller
NewRefs(objs, ci) ==
    LET Ref(i) == [obj |-> objs[i], ci |-> ci, deleted |-> 0,
                   handed |-> FALSE]
    IN  Tabulate(Ref, 1, Len(objs))

\* DeleteLocalRef on the references at the positions in at.
DeleteRefs(refs, at) ==
    LET Ref(i) == IF i \in at THEN [refs[i] EXCEPT !.deleted = @ + 1]
                  ELSE refs[i]
    IN  Tabulate(Ref, 1, Len(refs))

\* SetObjectArrayElement followed by DeleteLocalRef on the references at
\* the positions in at (agent.c:674-678).
HandOver(refs, at) ==
    LET Ref(i) == IF i \in at
                  THEN [refs[i] EXCEPT !.deleted = @ + 1, !.handed = TRUE]
                  ELSE refs[i]
    IN  Tabulate(Ref, 1, Len(refs))

\* The release loop of the failure path of the Reference Buffer's realloc
\* (agent.c:618-627): the references of the current batch (objs[0..found))
\* are deleted, then collected is freed.
ReleaseOnGrowFailure(refs, collected, batch) == DeleteRefs(refs, batch)

\* The new capacity of the Reference Buffer (agent.c:616).
CollectedNewCap(cap, found) ==
    IF cap = 0 THEN found + CollectedSlack ELSE cap * 2 + found

\* agent.c:613-649: the references objs of class name ci are appended to
\* the Reference Buffer, which grows when they do not fit.  w is the state
\* of the call before this class name and w1 the state after its pass.
FilteredCollect(ci, w, F, w1, objs) ==
    LET found   == Len(objs)
        base    == Len(w.refs)
        Slot(i) == base + i
        refs1   == w.refs \o NewRefs(objs, ci)
        grows   == Len(w.collected) + found > w.cap
    IN  IF found = 0 THEN w1
        ELSE IF grows /\ Has(F, "collectedGrow", ci, 1)
        THEN [w1 EXCEPT !.refs = ReleaseOnGrowFailure(
                                     refs1, w.collected,
                                     {base + i : i \in 1..found}),
                        !.growFailed = TRUE]
        ELSE [w1 EXCEPT !.refs = refs1,
                        !.collected = @ \o Tabulate(Slot, 1, found),
                        !.cap = IF grows THEN CollectedNewCap(w.cap, found)
                                ELSE @]

\* agent.c:576-611: the state after the pass for class name ci: epoch is
\* the incremented g_epoch, st the state the tagging iteration left and
\* objs what GetObjectsWithTags returned.
FilteredResolved(name, ci, w, F, epoch, st, objs) ==
    LET iterErr == Has(F, "iter", ci, 1)
        resErr  == ~iterErr /\ st.col.count > 0 /\ Has(F, "resolve", ci, 1)
        pass    == PassRecord(name, epoch, iterErr, st, resErr, objs,
                              TagsOf(st.tags, objs), FreeCol(st))
    IN  FilteredCollect(ci, w, F,
                        [w EXCEPT !.tags = st.tags, !.epoch = epoch,
                                  !.local = st.local,
                                  !.passes = Append(@, pass)],
                        objs)

\* agent.c:580-611: the tagging iteration for class name ci, then
\* GetObjectsWithTags.
FilteredTagged(hp, name, ci, w, F, epoch, st) ==
    FilteredResolved(name, ci, w, F, epoch, st,
                     ResolveTags(hp, st, Has(F, "resolve", ci, 1)))

\* agent.c:576-593: g_epoch has been incremented and g_local_counter is
\* reset; the tagging iteration runs on the tag slots as they are.
FilteredBumped(hp, name, ci, w, F, epoch) ==
    FilteredTagged(hp, name, ci, w, F, epoch,
                   TagPass(hp, name, w.tags, epoch, ToWord(InitialCounter),
                           F, ci))

\* A loop body that advances the epoch before it resolves the name.
FilteredClassBumpFirst(hp, names, ci, w, F) ==
    IF \/ names[ci] = NullName
       \/ Has(F, "utf", ci, 1)
       \/ names[ci] \notin Classes
    THEN [w EXCEPT !.epoch = FetchAndAdd(w.epoch)]
    ELSE FilteredBumped(hp, names[ci], ci, w, F, FetchAndAdd(w.epoch))

\* The loop body of agent.c:555-649 for the class name at index ci.
\* w is the state of the call:
\*   tags, epoch, local          the heap's tag slots and the counters
\*   collected, cap              the Reference Buffer (positions in refs)
\*   passes, refs                the passes made and references obtained
\*   growFailed                  the call returned NULL from line 627
FilteredClass(hp, names, ci, w, F) ==
    IF \/ names[ci] = NullName
       \/ Has(F, "utf", ci, 1)
       \/ names[ci] \notin Classes
    THEN w
    ELSE FilteredBumped(hp, names[ci], ci, w, F, FetchAndAdd(w.epoch))

RECURSIVE FilteredLoop(_, _, _, _, _)
FilteredLoop(hp, names, ci, w, F) ==
    IF ci > Len(names) \/ w.growFailed THEN w
    ELSE FilteredLoop(hp, names, ci + 1, FilteredClass(hp, names, ci, w, F), F)

\* agent.c:651-682: the construction of the returned Object[] from the
\* Reference Buffer the loop left in w.
FilteredFinish(names, F, stale, w) ==
    LET lost == Has(F, "findObject", 1, 1) \/ Has(F, "newArray", 1, 1)
        Elem(i) == w.refs[w.collected[i]].obj
        refs == IF w.growFailed \/ w.collected = <<>> THEN w.refs
                ELSE IF lost THEN DeleteRefs(w.refs, Range(w.collected))
                ELSE HandOver(w.refs, Range(w.collected))
        res == IF w.growFailed \/ w.collected = <<>> \/ lost THEN Absent
               ELSE Present(Tabulate(Elem, 1, Len(w.collected)))
    IN  [tags |-> w.tags, epoch |-> w.epoch, local |-> w.local,
         call |-> [NoCall EXCEPT !.op = "walkHeapFiltered", !.names = names,
                                 !.faults = F, !.result = res,
                                 !.passes = w.passes, !.refs = refs,
                                 !.growFailed = w.growFailed,
                                 !.staleBefore = stale]]

\* Java_migrator_heap_NativeHeapWalker_nativeWalkHeapFiltered
\* (agent.c:540-682); an empty names stands for a NULL or empty array.
WalkHeapFiltered(hp, tagsFn, epoch, local, names, F) ==
    FilteredFinish(names, F, Stale(hp, tagsFn),
                   FilteredLoop(hp, names, 1,
                                [tags |-> tagsFn, epoch |-> epoch,
                                 local |-> local,
                                 collected |-> <<>>, cap |-> 0,
                                 passes |-> <<>>, refs |-> <<>>,
                                 growFailed |-> FALSE],
                                F))

NameLists ==
    UNION {[1..n -> Classes \cup {NoSuchClass, NullName}] : n \in 0..MaxNames}

FilteredFaults(hp, names) ==
    {Fault(k, ci, 1) : k \in {"utf", "iter", "resolve", "collectedGrow"},
                       ci \in 1..Len(names)}
    \cup {Fault("grow", ci, n) : ci \in 1..Len(names),
                                 n \in ReallocOrdinals(hp)}
    \cup {Fault("findObject", 1, 1), Fault("newArray", 1, 1)}

NativeWalkHeapFiltered ==
    /\ Idle
    /\ \E names \in NameLists :
         \E F \in Plans(FilteredFaults(heap, names)) :
           \E r \in {WalkHeapFiltered(heap, tags, g_epoch, g_local_counter,
                                      names, F)} :
               /\ WordVal(r.epoch) <= MaxEpoch
               /\ tags' = r.tags
               /\ g_epoch' = r.epoch
               /\ g_local_counter' = r.local
               /\ last' = r.call
    /\ UNCHANGED <<heap, crashed, running>>

\* ----------------------------------------------------------- nativeResolve
\* Java_migrator_heap_NativeHeapWalker_nativeResolve (agent.c:419-452):
\* GetObjectsWithTags on the one tag; on an error (err) NULL, otherwise
\* objs[0], the first object carrying the tag, or NULL when there is none.
\* The result is a sequence of at most one reference.
Resolve(hp, tagsFn, tag, err) ==
    IF err \/ GetObjectsWithTags(hp, tagsFn, <<tag>>) = <<>> THEN Absent
    ELSE Present(<<GetObjectsWithTags(hp, tagsFn, <<tag>>)[1]>>)

\* The tags nativeResolve is called with: those on the heap, 0 (which
\* GetObjectsWithTags rejects as an illegal argument) and one that no
\* object carries.
ResolveInputs(hp, tagsFn, epoch) ==
    {tagsFn[o] : o \in 1..Len(hp)}
    \cup {Zero64, MakeTag(epoch, ToWord(Len(hp) + 1))}

NativeResolve ==
    /\ Idle
    /\ \E tag \in ResolveInputs(heap, tags, g_epoch) :
         \E F \in IF tag = Zero64 THEN {{Fault("resolve", 1, 1)}}
                   ELSE Plans({Fault("resolve", 1, 1)}) :
           last' = [NoCall EXCEPT
                      !.op = "resolve", !.tag = tag, !.faults = F,
                      !.result = Resolve(heap, tags, tag,
                                         Has(F, "resolve", 1, 1))]
    /\ UNCHANGED <<heap, tags, g_epoch, g_local_counter, crashed, running>>

\* Java_migrator_heap_NativeHeapWalker_nativeAdvanceEpoch (agent.c:688-695).
NativeAdvanceEpoch ==
    /\ Idle
    /\ WordVal(g_epoch) < MaxEpoch
    /\ g_epoch' = FetchAndAdd(g_epoch)
    /\ last' = [NoCall EXCEPT !.op = "advanceEpoch"]
    /\ UNCHANGED <<heap, tags, g_local_counter, crashed, running>>

\* The native method has returned and its caller has consumed the result.
Return ==
    /\ last.op # "none"
    /\ last' = NoCall
    /\ UNCHANGED <<heap, tags, g_epoch, g_local_counter, crashed, running>>

\* ------------------------------------------------------ concurrent calls
\* Two threads inside native calls at the same time.  The globals g_epoch
\* and g_local_counter are shared and unlocked (agent.c:37-38); the steps
\* below are the accesses to them and to the tag slots, in the order the
\* code makes them.  A heap iteration runs its callbacks one object at a
\* time; other threads' native code (a counter reset, an epoch advance)
\* runs between two callbacks, another heap iteration does not.
Threads == 1..MaxThreads

\* Where a thread is in its call:
\*   pc         "idle", "clear" (before clear_all_tags), "bump" (before the
\*              epoch advance of agent.c:576), "reset" (before
\*              g_local_counter = 1), "begin" (before IterateThroughHeap),
\*              "iter" (inside it), "resolve" (before GetObjectsWithTags),
\*              "done" (about to return)
\*   op, names  the native method and its class names
\*   ci         the index of the class of the current pass
\*   pos        the next object the iteration visits
\*   startEpoch g_epoch when IterateThroughHeap was called
\*   col        the tag_collector_t of the current pass
\*   assigned   <<object, tag>> for every slot the current pass wrote
\*   refs       the references obtained so far
IdleThread ==
    [pc |-> "idle", op |-> "none", names |-> <<>>, ci |-> 0, pos |-> 0,
     startEpoch |-> Zero64, col |-> EmptyCollector, assigned |-> <<>>,
     refs |-> <<>>]

\* The class filter of the current pass of a thread; "" is NULL.
KlassOf(r) == IF r.op = "walkHeap" THEN "" ELSE r.names[r.ci]

Iterating == \E t \in Threads : running[t].pc = "iter"

ConcNames(op) ==
    IF op = "walkHeap" THEN {<<>>}
    ELSE IF op = "snapshotBytes" THEN {<<c>> : c \in Classes}
    ELSE UNION {[1..n -> Classes] : n \in 1..MaxNames}

\* A thread enters nativeSnapshotBytes (agent.c:167), nativeWalkHeap
\* (agent.c:459) or nativeWalkHeapFiltered (agent.c:540).
ConcCall(t) ==
    /\ running[t].pc = "idle"
    /\ \E op \in {"snapshotBytes", "walkHeap", "walkHeapFiltered"} :
         \E names \in ConcNames(op) :
           running' = [running EXCEPT ![t] =
                         [IdleThread EXCEPT
                            !.pc = IF op = "walkHeapFiltered" THEN "bump"
                                   ELSE "clear",
                            !.op = op, !.names = names, !.ci = 1]]
    /\ UNCHANGED <<heap, tags, g_epoch, g_local_counter, crashed, last>>

\* clear_all_tags() (agent.c:177, :465).
ConcClear(t) ==
    /\ running[t].pc = "clear"
    /\ ~Iterating
    /\ tags' = ClearAllTags(heap, tags, FALSE)
    /\ running' = [running EXCEPT ![t].pc = "reset"]
    /\ UNCHANGED <<heap, g_epoch, g_local_counter, crashed, last>>

\* __sync_fetch_and_add(&g_epoch, 1) (agent.c:576).
ConcBump(t) ==
    /\ running[t].pc = "bump"
    /\ WordVal(g_epoch) < MaxEpoch
    /\ g_epoch' = FetchAndAdd(g_epoch)
    /\ running' = [running EXCEPT ![t].pc = "reset"]
    /\ UNCHANGED <<heap, tags, g_local_counter, crashed, last>>

\* g_local_counter = 1 (agent.c:179, :467, :578).
ConcReset(t) ==
    /\ running[t].pc = "reset"
    /\ g_local_counter' = ToWord(InitialCounter)
    /\ running' = [running EXCEPT ![t].pc = "begin"]
    /\ UNCHANGED <<heap, tags, g_epoch, crashed, last>>

\* The call of IterateThroughHeap with heap_tagging_cb (agent.c:197, :476,
\* :587) on a fresh collector.
ConcBegin(t) ==
    /\ running[t].pc = "begin"
    /\ ~Iterating
    /\ running' = [running EXCEPT
                     ![t].pc = "iter", ![t].pos = 1,
                     ![t].startEpoch = g_epoch,
                     ![t].col = EmptyCollector, ![t].assigned = <<>>]
    /\ UNCHANGED <<heap, tags, g_epoch, g_local_counter, crashed, last>>

\* The iteration reaches the next object: heap_tagging_cb (agent.c:110-139)
\* runs on it, on the globals as they are now, if it is an instance of the
\* class filter.
ConcCallback(t) ==
    /\ running[t].pc = "iter"
    /\ running[t].pos <= Len(heap)
    /\ \E r \in {running[t]} :
         IF KlassOf(r) # "" /\ heap[r.pos] # KlassOf(r)
         THEN /\ running' = [running EXCEPT ![t].pos = r.pos + 1]
              /\ UNCHANGED <<tags, g_local_counter>>
         ELSE \E st \in {heap_tagging_cb(
                            [tags |-> tags, local |-> g_local_counter,
                             col |-> r.col, assigned |-> r.assigned,
                             reallocs |-> 0, abort |-> FALSE],
                            r.pos, g_epoch, {})} :
                /\ tags' = st.tags
                /\ g_local_counter' = st.local
                /\ running' = [running EXCEPT
                                 ![t].pos = r.pos + 1, ![t].col = st.col,
                                 ![t].assigned = st.assigned]
    /\ UNCHANGED <<heap, g_epoch, crashed, last>>

\* IterateThroughHeap returns.
ConcEnd(t) ==
    /\ running[t].pc = "iter"
    /\ running[t].pos > Len(heap)
    /\ running' = [running EXCEPT ![t].pc = "resolve"]
    /\ UNCHANGED <<heap, tags, g_epoch, g_local_counter, crashed, last>>

\* GetObjectsWithTags on the collected tags (agent.c:207, :491, :606) when
\* there are any; nativeWalkHeapFiltered then goes on to its next class.
ConcResolve(t) ==
    /\ running[t].pc = "resolve"
    /\ ~Iterating
    /\ \E r \in {running[t]} :
         running' = [running EXCEPT
                       ![t].refs = r.refs \o
                                   (IF r.col.count > 0
                                    THEN GetObjectsWithTags(heap, tags,
                                                            r.col.tags)
                                    ELSE <<>>),
                       ![t].ci = IF r.ci < Len(r.names) THEN r.ci + 1
                                 ELSE r.ci,
                       ![t].pc = IF r.ci < Len(r.names) THEN "bump"
                                 ELSE "done"]
    /\ UNCHANGED <<heap, tags, g_epoch, g_local_counter, crashed, last>>

\* The call returns to its caller.
ConcReturn(t) ==
    /\ running[t].pc = "done"
    /\ running' = [running EXCEPT ![t] = IdleThread]
    /\ UNCHANGED <<heap, tags, g_epoch, g_local_counter, crashed, last>>

\* nativeAdvanceEpoch (agent.c:688-695) called by a thread that is in no
\* other call.
ConcAdvanceEpoch(t) ==
    /\ running[t].pc = "idle"
    /\ WordVal(g_epoch) < MaxEpoch
    /\ g_epoch' = FetchAndAdd(g_epoch)
    /\ UNCHANGED <<heap, tags, g_local_counter, crashed, last, running>>

\* The heaps of the model: every heap of 1..MaxObjs objects, and one heap
\* large enough for the collector and the Reference Buffer to grow twice.
Copies(c, n) == [i \in 1..n |-> c]

LargeHeap == <<"A">> \o Copies("BC", TagBaseCap + 1)

SmallHeaps == UNION {[1..n -> Classes] : n \in 1..MaxObjs}

InitOn(heaps) ==
    /\ heap \in heaps
    /\ tags = [o \in 1..Len(heap) |-> Zero64]
    /\ g_epoch = ToWord(InitialCounter)
    /\ g_local_counter = ToWord(InitialCounter)
    /\ crashed = FALSE
    /\ last = NoCall
    /\ running = [t \in Threads |-> IdleThread]

Next ==
    \/ NativeSnapshotBytes
    \/ NativeWalkHeap
    \/ NativeWalkHeapFiltered
    \/ NativeAdvanceEpoch
    \/ NativeResolve
    \/ Return

Init == InitOn(SmallHeaps)

Spec == Init /\ [][Next]_vars

\* The calls made on the large heap while the epoch has its initial value.
InitLarge == InitOn({LargeHeap})

FirstEpoch == WordVal(g_epoch) = InitialCounter

NextLarge ==
    \/ FirstEpoch /\ NativeSnapshotBytes
    \/ FirstEpoch /\ NativeWalkHeap
    \/ FirstEpoch /\ NativeWalkHeapFiltered
    \/ FirstEpoch /\ NativeAdvanceEpoch
    \/ FirstEpoch /\ NativeResolve
    \/ FirstEpoch /\ Return

SpecLarge == InitLarge /\ [][NextLarge]_vars

\* Calls made by two threads at once.
NextConc ==
    \E t \in Threads :
      \/ ConcCall(t)
      \/ ConcClear(t)
      \/ ConcBump(t)
      \/ ConcReset(t)
      \/ ConcBegin(t)
      \/ ConcCallback(t)
      \/ ConcEnd(t)
      \/ ConcResolve(t)
      \/ ConcReturn(t)
      \/ ConcAdvanceEpoch(t)

SpecConc == Init /\ [][NextConc]_vars

\* ------------------------------------------------------- snapshot decoder
\* The reader of the snapshot format of spec.md: a big-endian 4-byte count
\* N, then N records of an 8-byte big-endian tag, a 4-byte big-endian
\* name length L and L name bytes.  Decoding fails on a negative field, a
\* record that runs past the end, or bytes left over.
Malformed == [ok |-> FALSE, entries |-> <<>>]

\* The big-endian 4-byte integer at b[at..at+3]; -1 for a negative jint.
GetInt32(b, at) ==
    IF b[at] >= 128 THEN -1
    ELSE b[at] * 16777216 + b[at + 1] * 65536 + b[at + 2] * 256 + b[at + 3]

\* The big-endian 8-byte word at b[at..at+7].
GetInt64(b, at) ==
    <<b[at + 6] * 256 + b[at + 7], b[at + 4] * 256 + b[at + 5],
      b[at + 2] * 256 + b[at + 3], b[at] * 256 + b[at + 1]>>

RECURSIVE DecodeEntries(_, _, _, _)
DecodeEntries(b, at, n, acc) ==
    IF n = 0
    THEN IF at = Len(b) + 1 THEN [ok |-> TRUE, entries |-> acc]
         ELSE Malformed
    ELSE IF at + 11 > Len(b) THEN Malformed
    ELSE IF GetInt32(b, at + 8) < 0 THEN Malformed
    ELSE IF at + 11 + GetInt32(b, at + 8) > Len(b) THEN Malformed
    ELSE DecodeEntries(b, at + 12 + GetInt32(b, at + 8), n - 1,
                       Append(acc, <<GetInt64(b, at),
                                     SubSeq(b, at + 12,
                                            at + 11 + GetInt32(b, at + 8))>>))

Decode(b) ==
    IF Len(b) < 4 THEN Malformed
    ELSE IF GetInt32(b, 1) < 0 THEN Malformed
    ELSE DecodeEntries(b, 5, GetInt32(b, 1), <<>>)

\* ---------------------------------------------------------------- claims
\* What the claims speak about, read off the record of the last call.
SomePass(P(_)) == \E i \in 1..Len(last.passes) : P(last.passes[i])
EveryPass(P(_)) == \A i \in 1..Len(last.passes) : P(last.passes[i])

\* The instances of the classes named in a list of names.
InstancesOf(names) == {o \in 1..Len(heap) : heap[o] \in Range(names)}

\* s lists every element of the set S exactly once.
ListsOnce(s, S) == Len(s) = Cardinality(S) /\ Range(s) = S

\* C1: all-or-nothing buffer growth.  When the Tag Buffer's allocation
\* fails at an append of the tagging pass of snapshotBytes or walkHeap, the
\* operation returns absent or empty (a reference array without elements,
\* a snapshot with count 0), never a result built from the identifiers
\* collected before the failure.
C1_AllOrNothingGrowth ==
    LET Failed(p) == p.col.alloc_failed
    IN  (last.op \in {"snapshotBytes", "walkHeap"} /\ SomePass(Failed))
        => \/ ~last.result.present
           \/ last.result.val = <<>>
           \/ (last.op = "snapshotBytes" /\ last.result.val = <<0, 0, 0, 0>>)

\* C2: when growing the Reference Buffer fails in walkHeapFiltered, the
\* operation returns absent and every reference obtained so far, those of
\* earlier classes and those of the current batch, has been released
\* exactly once and none is handed to the caller.
C2_GrowFailureReleasesAll ==
    (last.op = "walkHeapFiltered" /\ last.growFailed)
    => /\ ~last.result.present
       /\ \A i \in 1..Len(last.refs) :
            last.refs[i].deleted = 1 /\ ~last.refs[i].handed

\* C3: uniqueness within a pass.  In every tagging pass (of snapshotBytes,
\* of walkHeap, or one per-class pass of walkHeapFiltered) no two objects
\* tagged by that pass receive the same identifier.
C3_UniqueWithinPass ==
    LET Distinct(p) ==
          \A i, j \in 1..Len(p.assigned) :
            i # j => /\ p.assigned[i][2] # p.assigned[j][2]
                     /\ p.assigned[i][1] # p.assigned[j][1]
    IN  EveryPass(Distinct)

\* A pass of a filtered walk, in an epoch other than the first, tagged
\* two objects.
C3_Witness ==
    LET Two(p) == Len(p.assigned) >= 2 /\ p.epoch # ToWord(InitialCounter)
    IN  last.op = "walkHeapFiltered" /\ SomePass(Two)

\* C4: zero is reserved.  Whatever calls were made before, the tagging
\* callback never writes 0 into a tag slot: every identifier a pass
\* assigned is non-zero, and the object it went to does not carry 0 when
\* the call returns.
C4_ZeroReserved ==
    LET NonZero(p) ==
          \A k \in 1..Len(p.assigned) :
            /\ p.assigned[k][2] # Zero64
            /\ tags[p.assigned[k][1]] # Zero64
    IN  EveryPass(NonZero)

\* A pass tagged an object after the epoch was advanced and an earlier
\* call had left tags behind.
C4_Witness ==
    LET Tagged(p) == Len(p.assigned) >= 1
    IN  /\ SomePass(Tagged)
        /\ g_epoch # ToWord(InitialCounter)
        /\ last.staleBefore >= 1

C6_WalkHeapReturnsAll ==
    (last.op = "walkHeap" /\ last.faults = {})
    => /\ last.result.present
       /\ ListsOnce(last.result.val, 1..Len(heap))

\* walkHeap returned every object of a heap in which earlier calls had
\* left tags, after an epoch change.
C6_Witness ==
    /\ last.op = "walkHeap"
    /\ last.faults = {}
    /\ last.staleBefore >= 1
    /\ g_epoch # ToWord(InitialCounter)
    /\ last.result.present
    /\ Len(last.result.val) = MaxObjs

\* C7: multi-class union.  walkHeapFiltered([X, Y]) with X and Y resolving
\* and both having live instances returns references to the union of the
\* instances of X and of Y, each once, in every state it is called in,
\* also after an earlier walkHeapFiltered, walkHeap or snapshotBytes.
C7_MultiClassUnion ==
    (/\ last.op = "walkHeapFiltered"
     /\ last.faults = {}
     /\ Len(last.names) = 2
     /\ last.names[1] # last.names[2]
     /\ \A i \in 1..Len(last.names) :
          /\ last.names[i] \in Classes
          /\ InstancesOf(<<last.names[i]>>) # {})
    => /\ last.result.present
       /\ ListsOnce(last.result.val, InstancesOf(last.names))

\* C8: snapshot encoding round trip.  The snapshot returned for N resolved
\* entries (tag, name) is the big-endian 4-byte N followed, per entry in
\* order, by the 8-byte big-endian tag, the 4-byte big-endian name length
\* and the name bytes: reading it back in that format recovers exactly the
\* list of (tag, name) pairs.
C8_SnapshotRoundTrip ==
    (last.op = "snapshotBytes" /\ last.result.present /\ last.degraded = {})
    => /\ Decode(last.result.val) = [ok |-> TRUE, entries |-> last.entries]
       /\ \A i \in 1..Len(last.entries) :
            /\ last.entries[i][1] = last.passes[1].tagsOut[i]
            /\ last.entries[i][2] = NameBytes(heap[last.passes[1].objects[i]])

\* A snapshot of two entries with a two-byte name, taken in an epoch
\* other than the first.
C8_Witness ==
    /\ last.op = "snapshotBytes"
    /\ last.result.present
    /\ last.degraded = {}
    /\ Len(last.entries) = 2
    /\ last.names = <<"BC">>
    /\ g_epoch # ToWord(InitialCounter)

\* C9: best-effort names.  When the class, the class name or the name's
\* bytes cannot be obtained for a resolved entry (or its reference is
\* null), snapshotBytes does not abort: it returns a well-formed snapshot
\* whose count is the number of resolved objects, with every record
\* complete, the failing entry with name length 0 and every other entry
\* with its tag and name.
C9_BestEffortNames ==
    (last.op = "snapshotBytes" /\ last.degraded # {})
    => /\ ~crashed
       /\ last.result.present
       /\ Decode(last.result.val) = [ok |-> TRUE, entries |-> last.entries]

\* C10: an external-capability failure aborts.  Whenever the heap-iteration
\* call or the tag-to-reference resolution call reports an error during
\* snapshotBytes, walkHeap or walkHeapFiltered, the operation returns
\* absent.
C10_CapabilityFailureAborts ==
    LET Errs(p) == p.iterErr \/ p.resolveErr
    IN  (/\ last.op \in {"snapshotBytes", "walkHeap", "walkHeapFiltered"}
         /\ SomePass(Errs) \/ Fault("clear", 1, 1) \in last.faults)
        => ~last.result.present

\* The tagging operations.
TaggingOps == {"snapshotBytes", "walkHeap", "walkHeapFiltered"}

\* C11: resolve after tag.  Right after a successful snapshotBytes,
\* walkHeap or walkHeapFiltered, one that returned a result and in which
\* no external call failed, resolve(t) returns, for every identifier t a
\* pass of that call assigned, a reference to the object the pass assigned
\* t to.
C11_ResolveAfterTag ==
    LET Resolves(p) ==
          \A k \in 1..Len(p.assigned) :
            Resolve(heap, tags, p.assigned[k][2], FALSE)
              = Present(<<p.assigned[k][1]>>)
    IN  (last.op \in TaggingOps /\ last.result.present /\ last.faults = {})
        => EveryPass(Resolves)

\* A filtered walk of two classes that tagged and returned both objects
\* of the heap.
C11_Witness ==
    LET Tagged(p) == Len(p.assigned) >= 1
    IN  /\ last.op = "walkHeapFiltered"
        /\ last.faults = {}
        /\ last.result.present
        /\ last.names = <<"BC", "A">>
        /\ Len(last.passes) = 2
        /\ EveryPass(Tagged)

\* The identifiers attached to objects of the heap.
Attached(hp, tagsFn) == {tagsFn[o] : o \in 1..Len(hp)} \ {Zero64}

\* C12: cross-pass distinctness within an epoch.  No identifier a tagging
\* call issues is one that an earlier pass issued and left attached: an
\* attached identifier with the current epoch was issued by a pass since
\* the last epoch advance.
C12_CrossPassDistinct ==
    [][last'.op \in {"snapshotBytes", "walkHeap"}
       => \A i \in 1..Len(last'.passes) :
            \A k \in 1..Len(last'.passes[i].assigned) :
              last'.passes[i].assigned[k][2] \notin Attached(heap, tags)]_vars

\* C13: idempotent clear.  In every reachable state, a clear pass that the
\* JVM carries out leaves every tag 0, and a second one right after it
\* writes to no slot and leaves the same tags as the first.  (The clear
\* pass reads and writes tag slots only: neither counter is among its
\* operands.)
C13_IdempotentClear ==
    \A once \in {ClearAllTags(heap, tags, FALSE)} :
      /\ \A o \in 1..Len(heap) : once[o] = Zero64
      /\ \A o \in 1..Len(heap) : clear_tag_cb(once, o) = once
      /\ ClearAllTags(heap, once, FALSE) = once

C13_Witness ==
    /\ last.op = "walkHeap"
    /\ Fault("clear", 1, 1) \notin last.faults
    /\ last.staleBefore = MaxObjs
    /\ Stale(heap, tags) = MaxObjs
    /\ g_epoch # ToWord(InitialCounter)

\* The names of a list that resolve to a class, in order.
Resolvable(names) ==
    LET Known(n) == n \in Classes IN SelectSeq(names, Known)

\* C14: unresolvable classes are skipped.  A walkHeapFiltered call in which
\* no external call fails returns the same references, and leaves the same
\* tags, epoch and local counter, as the call on the same state with the
\* null elements and the names FindClass does not resolve removed from the
\* list.
C14_UnresolvableSkipped ==
    [][(last'.op = "walkHeapFiltered" /\ last'.faults = {})
       => \E r \in {WalkHeapFiltered(heap, tags, g_epoch, g_local_counter,
                                     Resolvable(last'.names), {})} :
            /\ r.call.result = last'.result
            /\ r.tags = tags'
            /\ r.epoch = g_epoch'
            /\ r.local = g_local_counter']_vars

C14_Witness ==
    /\ last.op = "walkHeapFiltered"
    /\ last.faults = {}
    /\ last.names = <<NoSuchClass, "BC">>
    /\ last.result.present
    /\ Len(last.result.val) = MaxObjs

\* C15: a snapshot is of exactly the live instances.  The snapshot that a
\* snapshotBytes(C) call in which no external call failed returns decodes, and its records are, one for
\* one, the instances of C on the heap, each once and nothing else, each
\* record carrying the identifier this call assigned to its instance and
\* left attached to it.
C15_SnapshotExactlyLive ==
    (last.op = "snapshotBytes" /\ last.result.present /\ last.faults = {})
    => \E p \in {last.passes[1]} :
         \E d \in {Decode(last.result.val)} :
           /\ d.ok
           /\ ListsOnce(p.objects, InstancesOf(last.names))
           /\ Len(d.entries) = Len(p.objects)
           /\ \A i \in 1..Len(d.entries) :
                /\ d.entries[i][1] = tags[p.objects[i]]
                /\ <<p.objects[i], d.entries[i][1]>> \in Range(p.assigned)

\* A snapshot of the one instance of A, taken while every object of the
\* heap carried a tag of an earlier call.
C15_Witness ==
    /\ last.op = "snapshotBytes"
    /\ last.faults = {}
    /\ last.result.present
    /\ last.names = <<"A">>
    /\ heap = <<"BC", "A">>
    /\ last.staleBefore = MaxObjs
    /\ Len(last.entries) = 1

\* C18: no unreported tag.  At the end of every tagging pass, also one in
\* which a Tag Buffer append failed and the iteration was aborted, the
\* identifier of every object the pass tagged is stored in the pass's Tag
\* Buffer.
C18_NoUnreportedTag ==
    LET Recorded(p) ==
          \A k \in 1..Len(p.assigned) :
            p.assigned[k][2] \in Range(p.col.tags)
    IN  last.op \in TaggingOps => EveryPass(Recorded)

\* C19: no duplicate attached identifier.  In every state reached by
\* snapshotBytes, walkHeap, walkHeapFiltered, advanceEpoch and resolve
\* calls made one after the other, no two objects of the heap carry the
\* same non-zero tag.
C19_NoDuplicateAttached ==
    \A o1, o2 \in 1..Len(heap) :
      (o1 # o2 /\ tags[o1] # Zero64) => tags[o1] # tags[o2]

\* C20: the size computed for the snapshot buffer equals the number of
\* bytes the encoder writes, for every snapshot the encoder is run for,
\* also one with entries whose name was degraded.
C20_SizeMatchesWritten ==
    (last.op = "snapshotBytes" /\ last.written # <<>>)
    => Len(last.written) = last.bufSize

\* C16: uniqueness under concurrency.  While two threads run tagging
\* calls at once, no pass gives the same identifier to two objects.
C16_UniqueUnderConcurrency ==
    \A t \in Threads :
      \A j, k \in 1..Len(running[t].assigned) :
        j # k => running[t].assigned[j][2] # running[t].assigned[k][2]

\* C17: identifier composition.  Every identifier a pass assigns carries,
\* in its high 32 bits, the epoch that was current when the pass started,
\* also when the epoch is advanced while the pass is in progress.
C17_EpochOfPassStart ==
    \A t \in Threads :
      \A k \in 1..Len(running[t].assigned) :
        \E tag \in {running[t].assigned[k][2]} :
          <<0, 0, tag[3], tag[4]>> = Shl32(Low32(running[t].startEpoch))

C22_PermanentFailure ==
    LET Sound(p) ==
          /\ p.col.count <= p.col.capacity
          /\ Len(p.col.tags) = p.col.count
          /\ p.col.count <= Len(p.assigned)
          /\ \A k \in 1..p.col.count : p.col.tags[k] = p.assigned[k][2]
          /\ p.col.alloc_failed
               => \A ok \in BOOLEAN :
                    tag_add(p.col, MakeTag(p.epoch, ToWord(InitialCounter)),
                            ok)
                      = [col |-> p.col, rc |-> -1]
    IN  last.op \in TaggingOps => EveryPass(Sound)

\* A pass whose 129th append failed: the collector keeps the 128
\* identifiers collected before.
C22_Witness ==
    LET Failed(p) == p.col.alloc_failed /\ p.col.count = TagBaseCap
                     /\ p.col.capacity = TagBaseCap
    IN  SomePass(Failed)

\* C23: a tagging pass leaves already-tagged objects unchanged.  In a
\* call that tags without a clear pass before (walkHeapFiltered, or a call
\* whose clear pass failed), every object that carried a tag keeps it, no
\* pass assigns to it or to an object an earlier pass of the call tagged,
\* and the local counter ends at 1 plus the number of objects the last
\* pass assigned to.
C23_TaggedLeftAlone ==
    [][(last'.op \in TaggingOps
        /\ (last'.op = "walkHeapFiltered"
            \/ Fault("clear", 1, 1) \in last'.faults))
       => \E ps \in {last'.passes} :
            /\ \A o \in 1..Len(heap) :
                 tags[o] # Zero64
                 => /\ tags'[o] = tags[o]
                    /\ \A i \in 1..Len(ps) :
                         \A k \in 1..Len(ps[i].assigned) :
                           ps[i].assigned[k][1] # o
            /\ \A i, j \in 1..Len(ps) :
                 \A k \in 1..Len(ps[i].assigned) :
                   \A m \in 1..Len(ps[j].assigned) :
                     ps[i].assigned[k][1] = ps[j].assigned[m][1]
                     => (i = j /\ k = m)
            /\ \A i \in 1..Len(ps) :
                 ps[i].col.count <= Len(ps[i].assigned)
            /\ (ps # <<>> /\ ~ps[Len(ps)].iterErr)
                 => g_local_counter'
                      = ToWord(InitialCounter
                               + Len(ps[Len(ps)].assigned))]_vars

\* A filtered walk over a heap whose objects all carried a tag: its pass
\* visited them and assigned nothing.
C23_Witness ==
    LET Nothing(p) == p.assigned = <<>> /\ ~p.iterErr
    IN  /\ last.op = "walkHeapFiltered"
        /\ last.staleBefore = MaxObjs
        /\ Len(last.passes) = MaxNames
        /\ EveryPass(Nothing)
        /\ g_local_counter = ToWord(InitialCounter)

====
